---- MODULE Spec2Model ----
(***************************************************************************)
(* The job view of the PRISM frontend: JobPage (pages/job.tsx) with the    *)
(* push-channel hook useJobResultStream (api/streams.ts) and the polled    *)
(* job record (the generated SWR hook useGetJobRequestV1ApiRequestsJobIdGet)*)
(***************************************************************************)
EXTENDS Integers, Sequences, FiniteSets, TLC

VARIABLES
    mounted,      \* a JobPage instance is mounted (App.tsx Route /job/:id)
    jobId,        \* the jobId prop of the view (last value once unmounted)
    stream,       \* useState<StreamEvent[]>  (streams.ts:13)
    isConnected,  \* useState<boolean>        (streams.ts:14)
    channels,     \* every EventSource created so far, in creation order
    accepted,     \* the setStream calls of this view instance, in arrival order
    swr,          \* what the poll hook returns to the view: data and error
    cache,        \* last successfully fetched job record per job id
    inflight,     \* job ids with a fetch in flight
    pollKey,      \* job id the refresh timer is armed for, NoKey if none
    threwAt,      \* Len(accepted) when onmessage last threw, NoThrow if never
    pair,         \* two hook instances of useJobResultStream side by side
    page          \* the StartTracePage instance (pages/startTrace.tsx)

vars == <<mounted, jobId, stream, isConnected, channels, accepted,
          swr, cache, inflight, pollKey, threwAt, pair, page>>

jobView == <<mounted, jobId, stream, isConnected, channels, accepted,
             swr, cache, inflight, pollKey, threwAt>>

----------------------------------------------------------------------------
(* Bounds *)
MaxStream == 2
MaxChannels == 2

JobIds == {"J1", "J2"}
NoKey == "none"
NoJob == "none"
NoThrow == -1
PollStatuses == {"running", "partial"}

(* Push payloads: event.data of a message. parses = FALSE is a payload on   *)
(* which JSON.parse throws; an absent field reads as the empty string.     *)
Data(ok, serial, st, msg, ts, tr) ==
    [parses |-> ok, device_serial |-> serial, status |-> st, message |-> msg,
     timestamp |-> ts, trace_id |-> tr]

Payloads ==
    { Data(TRUE, "D1", "completed", "done", "T2", "TR1"),
      Data(TRUE, "D2", "failed", "", "T1", ""),
      Data(TRUE, "", "running", "", "T1", ""),
      Data(TRUE, "D1", "running", "", "", ""),
      Data(FALSE, "", "", "", "", "") }

(* JSON.parse(event.data) of a payload that parses (streams.ts:29) *)
JSONparse(data) ==
    [device_serial |-> data.device_serial, status |-> data.status,
     message |-> data.message, timestamp |-> data.timestamp,
     trace_id |-> data.trace_id]

(* Mutant: one of the two fields is enough *)
acceptsEither(newEvent) ==
    newEvent.device_serial # "" \/ newEvent.timestamp # ""

(* if (newEvent.device_serial && newEvent.timestamp)  (streams.ts:33) *)
accepts(newEvent) == newEvent.device_serial # "" /\ newEvent.timestamp # ""

(* Mutants of the updater: append at the tail; keep only the newest event *)
setStreamTail(newEvent, prevStream) == Append(prevStream, newEvent)

setStreamReplace(newEvent, prevStream) == <<newEvent>>

(* Mutant: skip an event whose device_serial and timestamp are already listed *)
setStreamDedup(newEvent, prevStream) ==
    IF \E i \in 1..Len(prevStream) :
          /\ prevStream[i].device_serial = newEvent.device_serial
          /\ prevStream[i].timestamp = newEvent.timestamp
       THEN prevStream
       ELSE <<newEvent>> \o prevStream

(* (prevStream) => [newEvent, ...prevStream]  (streams.ts:34) *)
setStreamUpdater(newEvent, prevStream) == <<newEvent>> \o prevStream

----------------------------------------------------------------------------
(* EventSource objects *)

(* new EventSource(url(jobId), {withCredentials: true})  (streams.ts:17-22) *)
newEventSource(job) ==
    [job |-> job, readyState |-> "CONNECTING", errored |-> FALSE,
     torn |-> FALSE, released |-> 0]

(* Mutant: a close that releases the connection on every call *)
closeAlways(es) ==
    [es EXCEPT !.readyState = "CLOSED", !.released = @ + 1]

(* eventSource.close(): releases the connection unless already closed *)
close(es) ==
    [es EXCEPT !.readyState = "CLOSED",
               !.released = IF es.readyState = "CLOSED" THEN @ ELSE @ + 1]

(* Mutant: a cleanup that forgets to close *)
cleanupNoClose(es) == [es EXCEPT !.torn = TRUE]

(* return () => { eventSource.close() }  (streams.ts:43-45) *)
cleanup(es) == close([es EXCEPT !.torn = TRUE])

Current == Len(channels)

----------------------------------------------------------------------------
(* The view's job record and badge *)

(* Mutants: drop the record while the hook reports an error; take the     *)
(* job's status from the newest event of the timeline                      *)
jobDataUnlessError == IF swr.error THEN NoJob ELSE swr.data

jobDataFromTimeline == IF stream # <<>> THEN stream[1].status ELSE swr.data

(* const { data: jobData } = useGetJobRequest...(jobId, ...)  (job.tsx:85) *)
jobData == swr.data

(* Mutant: a badge that shows failed as soon as the timeline holds a failed *)
(* event                                                                   *)
badgeStatusInferred ==
    IF \E i \in 1..Len(stream) : stream[i].status = "failed" THEN "failed"
    ELSE IF jobData = NoJob THEN "pending" ELSE jobData

(* <ChipStatus status={jobData?.status ?? "pending"} />  (job.tsx:97) *)
badgeStatus == IF jobData = NoJob THEN "pending" ELSE jobData

(* Mutant: the hook stays keyed by the id the view had before *)
pollKeyStale(j) == IF jobId \in JobIds THEN jobId ELSE j

(* useGetJobRequest...(jobId, ...): the hook's key is the jobId prop       *)
(* (job.tsx:85-86)                                                         *)
pollKeyFor(j) == j

(* Mutant: no refresh interval, so the hook never polls *)
pollOptionsNoRefresh == [refreshInterval |-> 0]

(* { swr: { refreshInterval: 5000 } }  (job.tsx:87-91) *)
pollOptions == [refreshInterval |-> 5000]

(* the hook's return value for a key: cached data, no error yet *)
hookFor(k) == [data |-> cache[k], error |-> FALSE]

----------------------------------------------------------------------------
(* The status tables and what JobPage renders *)

(* const statuses = { ... }  (job.tsx:10-18), as key/value pairs *)
statuses ==
    { <<"pending", "Pending">>, <<"running", "Running">>,
      <<"starting", "Starting">>, <<"completed", "Completed">>,
      <<"failed", "Failed">>, <<"partial", "Partial Success">>,
      <<"uploading", "Uploading">> }

(* Mutant: a colour table without its uploading entry *)
statuses_colors_short ==
    { <<"pending", "warning">>, <<"starting", "warning">>,
      <<"running", "primary">>, <<"completed", "success">>,
      <<"failed", "danger">>, <<"partial", "warning">> }

(* const statuses_colors  (job.tsx:20-31) *)
statuses_colors ==
    { <<"pending", "warning">>, <<"starting", "warning">>,
      <<"running", "primary">>, <<"completed", "success">>,
      <<"failed", "danger">>, <<"uploading", "primary">>,
      <<"partial", "warning">> }

(* const statuses_text_colors  (job.tsx:33-41) *)
statuses_text_colors ==
    { <<"pending", "text-black">>, <<"starting", "text-black">>,
      <<"running", "text-white">>, <<"completed", "text-white">>,
      <<"failed", "text-white">>, <<"uploading", "text-white">>,
      <<"partial", "text-black">> }

(* What a property read can give besides a table's own string *)
Undefined == "undefined"
FunctionValue == "[Function]"
ObjectPrototype == "[object Object]"

(* Names every object literal inherits as functions *)
InheritedFunctions ==
    {"constructor", "toString", "toLocaleString", "valueOf",
     "hasOwnProperty", "isPrototypeOf", "propertyIsEnumerable"}

(* table[key] on an object literal: the own property if there is one, else *)
(* what the literal inherits (__proto__ reads as the prototype object),    *)
(* else undefined  (job.tsx:46, 48, 50)                                    *)
lookup(table, key) ==
    IF \E p \in table : p[1] = key
       THEN (CHOOSE p \in table : p[1] = key)[2]
    ELSE IF key = "__proto__" THEN ObjectPrototype
    ELSE IF key \in InheritedFunctions THEN FunctionValue
    ELSE Undefined

(* function ChipStatus({ status })  (job.tsx:43-53) *)
ChipStatus(status) ==
    [color |-> lookup(statuses_colors, status),
     className |-> lookup(statuses_text_colors, status),
     children |-> lookup(statuses, status)]

(* What ChipStatus writes to the console: it has no such statement *)
ChipStatusLogs(status) == {}

(* A chip's child is rendered as text if a string, as nothing if undefined *)
(* or a function; a plain object as a child makes the render throw         *)
renderThrows(chip) == chip.children = ObjectPrototype

(* function JobStatusUpdate({ event })  (job.tsx:55-82); an optional part  *)
(* is a sequence of length 0 or 1. The date text is not modelled.          *)
JobStatusUpdate(event) ==
    [chip |-> IF event.status # "" THEN <<ChipStatus(event.status)>> ELSE <<>>,
     device_serial |-> event.device_serial,
     message |-> event.message,
     link |-> IF event.trace_id # "" THEN <<event.trace_id>> ELSE <<>>]

(* The render of JobPage  (job.tsx:95-136): badge, connection chip and one *)
(* card per event; a throw in any child fails the whole render             *)
JobPage ==
    LET badge == ChipStatus(badgeStatus)
        cards == [i \in 1..Len(stream) |-> JobStatusUpdate(stream[i])]
        fails == \/ renderThrows(badge)
                 \/ \E i \in 1..Len(stream) :
                       /\ cards[i].chip # <<>>
                       /\ renderThrows(cards[i].chip[1])
    IN IF fails
          THEN [crashed |-> TRUE, badge |-> <<>>, live |-> <<>>, cards |-> <<>>]
          ELSE [crashed |-> FALSE, badge |-> <<badge>>, live |-> <<isConnected>>,
                cards |-> cards]

----------------------------------------------------------------------------
(* Two JobPage views side by side, each with its own call of               *)
(* useJobResultStream: per view the hook's state, the EventSource of the   *)
(* current run of its effect, and what the last run of onmessage did       *)

Views == {1, 2}

PairPayloads ==
    { Data(TRUE, "D1", "completed", "done", "T2", "TR1"),
      Data(TRUE, "D2", "failed", "", "T1", ""),
      Data(TRUE, "", "running", "", "T1", ""),
      Data(TRUE, "D1", "running", "", "", ""),
      Data(FALSE, "", "", "", "", "") }

(* A view that is not rendered: no state, no open source *)
NoView ==
    [mounted |-> FALSE, jobId |-> NoKey, stream |-> <<>>, isConnected |-> FALSE,
     es |-> [newEventSource(NoKey) EXCEPT !.readyState = "CLOSED", !.torn = TRUE],
     last |-> "none"]

(* Mutant: one store behind every call of the hook *)
hookInstanceShared(v) == 1

(* setStream and setIsConnected called by a handler are the setters of the *)
(* hook call whose effect created the source  (streams.ts:13-14, 16-41)    *)
hookInstance(v) == v

PairMount(v, j) ==
    /\ UNCHANGED <<jobView, page>>
    /\ ~pair[v].mounted
    /\ pair' = [pair EXCEPT ![v] =
          [mounted |-> TRUE, jobId |-> j, stream |-> <<>>,
           isConnected |-> FALSE, es |-> newEventSource(j), last |-> "none"]]

(* cleanup of the old source, then the effect for the new id  (streams.ts:16-46) *)
PairChangeJob(v, j) ==
    /\ UNCHANGED <<jobView, page>>
    /\ pair[v].mounted
    /\ j # pair[v].jobId
    /\ pair' = [pair EXCEPT ![v].jobId = j, ![v].es = newEventSource(j)]

PairUnmount(v) ==
    /\ UNCHANGED <<jobView, page>>
    /\ pair[v].mounted
    /\ pair' = [pair EXCEPT ![v].mounted = FALSE, ![v].es = cleanup(@)]

(* eventSource.onopen  (streams.ts:24-26) *)
PairOnOpen(v) ==
    /\ UNCHANGED <<jobView, page>>
    /\ pair[v].es.readyState = "CONNECTING"
    /\ pair' = [pair EXCEPT ![v].es.readyState = "OPEN",
                            ![hookInstance(v)].isConnected = TRUE]

(* eventSource.onmessage  (streams.ts:28-36) *)
PairOnMessage(v, data) ==
    /\ UNCHANGED <<jobView, page>>
    /\ pair[v].es.readyState = "OPEN"
    /\ Len(pair[hookInstance(v)].stream) < MaxStream
    /\ pair' =
          IF ~data.parses
             THEN [pair EXCEPT ![v].last = "threw"]
          ELSE IF accepts(JSONparse(data))
             THEN [pair EXCEPT ![v].last = "appended",
                               ![hookInstance(v)].stream =
                                   setStreamUpdater(JSONparse(data), @)]
          ELSE [pair EXCEPT ![v].last = "skipped"]

(* eventSource.onerror  (streams.ts:38-41) *)
PairOnError(v, fatal) ==
    /\ UNCHANGED <<jobView, page>>
    /\ pair[v].es.readyState \in {"CONNECTING", "OPEN"}
    /\ LET es == [pair[v].es EXCEPT !.errored = TRUE]
           at == IF fatal
                    THEN [es EXCEPT !.readyState = "CLOSED", !.released = @ + 1]
                    ELSE es
       IN pair' = [pair EXCEPT ![v].es = close(at),
                               ![hookInstance(v)].isConnected = FALSE]

PairNext ==
    \/ \E v \in Views, j \in JobIds : PairMount(v, j)
    \/ \E v \in Views, j \in JobIds : PairChangeJob(v, j)
    \/ \E v \in Views : PairUnmount(v)
    \/ \E v \in Views : PairOnOpen(v)
    \/ \E v \in Views, data \in PairPayloads : PairOnMessage(v, data)
    \/ \E v \in Views, fatal \in BOOLEAN : PairOnError(v, fatal)

----------------------------------------------------------------------------
(* The start-trace page: StartTracePage (pages/startTrace.tsx) with its    *)
(* device cards (components/ChooseDeviceCard.tsx). Text that is parsed or  *)
(* formatted is a sequence of one-character strings.                       *)

MaxRequests == 2

DigitChars == <<"0", "1", "2", "3", "4", "5", "6", "7", "8", "9">>

IsDigit(ch) == \E d \in 1..10 : DigitChars[d] = ch

DigitValue(ch) == (CHOOSE d \in 1..10 : DigitChars[d] = ch) - 1

NaN == [nan |-> TRUE, value |-> 0]

Num(n) == [nan |-> FALSE, value |-> n]

RECURSIVE SkipSpace(_)
SkipSpace(str) ==
    IF str # <<>> /\ str[1] = " " THEN SkipSpace(Tail(str)) ELSE str

RECURSIVE DigitRun(_, _)
(* value and length of the longest run of digits str starts with *)
DigitRun(str, acc) ==
    IF str # <<>> /\ IsDigit(str[1])
       THEN DigitRun(Tail(str), [value |-> acc.value * 10 + DigitValue(str[1]),
                                 length |-> acc.length + 1])
       ELSE acc

(* parseInt(string): leading white space, an optional sign, then digits up *)
(* to the first other character; NaN if there is no digit                  *)
parseInt(str) ==
    LET s1 == SkipSpace(str)
        signed == s1 # <<>> /\ s1[1] \in {"+", "-"}
        s2 == IF signed THEN Tail(s1) ELSE s1
        run == DigitRun(s2, [value |-> 0, length |-> 0])
    IN IF run.length = 0 THEN NaN
       ELSE IF signed /\ s1[1] = "-" THEN Num(0 - run.value)
       ELSE Num(run.value)

RECURSIVE NatToString(_)
NatToString(n) ==
    IF n < 10 THEN <<DigitChars[n + 1]>>
    ELSE NatToString(n \div 10) \o <<DigitChars[(n % 10) + 1]>>

(* Number.prototype.toString() of an integer *)
toString(n) == IF n < 0 THEN <<"-">> \o NatToString(0 - n) ELSE NatToString(n)

(* a number used as a condition: NaN and 0 are falsy *)
Truthy(num) == ~num.nan /\ num.value # 0

(* comparisons with NaN are false *)
LessOrEqualZero(num) == ~num.nan /\ num.value <= 0

GreaterThanZero(num) == ~num.nan /\ num.value > 0

(* What the server holds: configurations with their default_duration (0:   *)
(* none) and devices; a device list pairs each device with its last_status *)
Configurations ==
    << [config_id |-> "c1", default_duration |-> 30],
       [config_id |-> "c2", default_duration |-> 0] >>

NoConfiguration == [config_id |-> "", default_duration |-> 0]

DeviceLists ==
    { << [device_id |-> "d1", last_status |-> s1],
         [device_id |-> "d2", last_status |-> s2] >> :
      s1 \in {"online"}, s2 \in {"online", "offline"} }

(* Query strings the page is opened with *)
UrlConfigurationIds == {"", "c1", "c9"}
UrlDeviceIds == {<<>>, <<"d2">>, <<"d2", "d1">>}
UrlDurations == {<<>>, <<"5">>, <<"-", "5">>}

(* Values the duration field reports to onChange (a number field reports  *)
(* the empty string for text that is not a number)                         *)
TypedDurations == {<<>>, <<"0">>, <<"7">>, <<"-", "2">>, <<"1", ".", "5">>}

(* No StartTracePage is mounted: only where the browser is is known *)
NoPage == [open |-> FALSE, location |-> "elsewhere"]

(* The page before its first render *)
FreshPage ==
    [open |-> FALSE, location |-> "elsewhere",
     url |-> [configuration_id |-> "", device_ids |-> <<>>, duration |-> <<>>],
     allConfigurations |-> <<>>, allDevices |-> <<>>,
     chosenConfigurationId |-> "", chosenDevices |-> <<>>, duration |-> <<>>,
     manuallySetDuration |-> FALSE,
     requests |-> 0, lastRequest |-> <<>>, awaiting |-> 0,
     lastStart |-> "none", chosenAfterEdit |-> FALSE]

(* parseInt(searchParams.get("duration") ?? "") || 10  (startTrace.tsx:20) *)
url_duration(p) ==
    IF Truthy(parseInt(p.url.duration)) THEN parseInt(p.url.duration).value
    ELSE 10

(* device_ids split at the commas  (startTrace.tsx:39-42) *)
parsedDeviceIds(p) == p.url.device_ids

(* allConfigurations?.find(...)  (startTrace.tsx:44-48) *)
chosenConfigurationData(p) ==
    IF \E i \in 1..Len(p.allConfigurations) :
          p.allConfigurations[i].config_id = p.chosenConfigurationId
       THEN p.allConfigurations[
               CHOOSE i \in 1..Len(p.allConfigurations) :
                  p.allConfigurations[i].config_id = p.chosenConfigurationId]
       ELSE NoConfiguration

(* configsLoading || devicesLoading  (startTrace.tsx:151-153) *)
Rendered(p) == p.open /\ p.allConfigurations # <<>> /\ p.allDevices # <<>>

Ids(seq) == {seq[i] : i \in 1..Len(seq)}

(* Mutant: the default is applied whether or not the field was edited *)
defaultDurationEffectAlways(r, acc) ==
    IF chosenConfigurationData(r).default_duration # 0
       THEN [acc EXCEPT !.duration =
                toString(chosenConfigurationData(r).default_duration)]
       ELSE acc

(* The effects of a render r, applied to the state acc they update.        *)
(* useEffect [chosenConfigurationData]  (startTrace.tsx:84-91)             *)
defaultDurationEffect(r, acc) ==
    IF ~r.manuallySetDuration /\ chosenConfigurationData(r).default_duration # 0
       THEN [acc EXCEPT !.duration =
                toString(chosenConfigurationData(r).default_duration)]
       ELSE acc

(* useEffect [configuration_id, allConfigurations]  (startTrace.tsx:93-107) *)
configurationIdEffect(r, acc) ==
    IF /\ r.allConfigurations # <<>>
       /\ r.url.configuration_id # ""
       /\ \E i \in 1..Len(r.allConfigurations) :
             r.allConfigurations[i].config_id = r.url.configuration_id
       THEN [acc EXCEPT !.chosenConfigurationId = r.url.configuration_id]
       ELSE acc

(* useEffect [parsedDeviceIds, allDevices]  (startTrace.tsx:109-116) *)
deviceIdsEffect(r, acc) ==
    IF r.allDevices # <<>> /\ parsedDeviceIds(r) # <<>>
       THEN LET valid == SelectSeq(r.allDevices,
                            LAMBDA device :
                               device.device_id \in Ids(parsedDeviceIds(r)))
            IN [acc EXCEPT !.chosenDevices =
                   [i \in 1..Len(valid) |-> valid[i].device_id]]
       ELSE acc

(* useEffect [chosenConfigurationId, chosenDevices, duration]              *)
(* (startTrace.tsx:118-149): the query string follows the state           *)
urlSyncEffect(r, acc) ==
    [acc EXCEPT
       !.url.configuration_id =
           IF /\ r.chosenConfigurationId # ""
              /\ r.chosenConfigurationId # r.url.configuration_id
              THEN r.chosenConfigurationId
           ELSE IF r.chosenConfigurationId = "" /\ r.url.configuration_id # ""
              THEN ""
           ELSE @,
       !.url.device_ids =
           IF r.chosenDevices # <<>>
              THEN (IF r.chosenDevices # r.url.device_ids
                       THEN r.chosenDevices ELSE @)
           ELSE <<>>,
       !.url.duration =
           IF r.duration # <<>> /\ GreaterThanZero(parseInt(r.duration))
              THEN (IF r.duration # toString(url_duration(r))
                       THEN r.duration ELSE @)
           ELSE <<>>]

RECURSIVE RunEffects(_, _, _)
(* After the render r that follows the render prev (first: the mount), the *)
(* effects whose dependencies changed run in order, each on the values of  *)
(* r; their updates make the next render, until nothing changes            *)
RunEffects(first, prev, r) ==
    LET a1 == IF first \/ chosenConfigurationData(prev) # chosenConfigurationData(r)
                 THEN defaultDurationEffect(r, r) ELSE r
        a2 == IF \/ first
                 \/ prev.url.configuration_id # r.url.configuration_id
                 \/ prev.allConfigurations # r.allConfigurations
                 THEN configurationIdEffect(r, a1) ELSE a1
        a3 == IF \/ first
                 \/ parsedDeviceIds(prev) # parsedDeviceIds(r)
                 \/ prev.allDevices # r.allDevices
                 THEN deviceIdsEffect(r, a2) ELSE a2
        a4 == IF \/ first
                 \/ prev.chosenConfigurationId # r.chosenConfigurationId
                 \/ prev.chosenDevices # r.chosenDevices
                 \/ prev.duration # r.duration
                 THEN urlSyncEffect(r, a3) ELSE a3
    IN IF a4 = r THEN r ELSE RunEffects(FALSE, r, a4)

(* setIsChosen of a device card  (startTrace.tsx:203-216) *)
setIsChosenDevice(p, device_id, isChosen) ==
    IF isChosen
       THEN [p EXCEPT !.chosenDevices = Append(@, device_id)]
       ELSE [p EXCEPT !.chosenDevices =
                SelectSeq(@, LAMBDA id : id # device_id)]

(* const isDisabled = device.last_status !== "online"  (ChooseDeviceCard.tsx:13) *)
isDisabled(device) == device.last_status # "online"

(* The route /trace starts matching  (App.tsx:35; startTrace.tsx:17-50);   *)
(* lists fetched earlier in the session are there at the first render      *)
OpenPage(cid, ids, dur, configsCached, devices) ==
    /\ UNCHANGED <<jobView, pair>>
    /\ ~page.open
    /\ LET u == [FreshPage EXCEPT !.url = [configuration_id |-> cid,
                                         device_ids |-> ids, duration |-> dur]]
           r == [u EXCEPT !.open = TRUE, !.location = "trace",
                          !.allConfigurations =
                              IF configsCached THEN Configurations ELSE <<>>,
                          !.allDevices = devices,
                          !.chosenConfigurationId = cid,
                          !.duration = toString(url_duration(u))]
       IN page' = RunEffects(TRUE, r, r)

(* The route stops matching *)
ClosePage ==
    /\ UNCHANGED <<jobView, pair>>
    /\ page.open
    /\ page' = NoPage

(* useGetConfigurationsV1ApiConfigurationsGet() delivers  (startTrace.tsx:24-25) *)
ConfigurationsLoaded ==
    /\ UNCHANGED <<jobView, pair>>
    /\ page.open
    /\ page.allConfigurations = <<>>
    /\ page' = RunEffects(FALSE, page,
                          [page EXCEPT !.allConfigurations = Configurations])

(* useGetDevicesV1ApiDevicesGet delivers, first or on a 10 s refresh       *)
(* (startTrace.tsx:26-31)                                                  *)
DevicesLoaded(devices) ==
    /\ UNCHANGED <<jobView, pair>>
    /\ page.open
    /\ devices # page.allDevices
    /\ page' = RunEffects(FALSE, page, [page EXCEPT !.allDevices = devices])

(* onChange of the duration field  (startTrace.tsx:164-168) *)
ChangeDuration(value) ==
    /\ UNCHANGED <<jobView, pair>>
    /\ Rendered(page)
    /\ page' = RunEffects(FALSE, page,
                          [page EXCEPT !.manuallySetDuration = TRUE,
                                       !.duration = value])

(* onPress of a configuration card, setIsChosen(!isChosen)                 *)
(* (startTrace.tsx:180-190)                                                *)
PressConfigCard(i) ==
    /\ UNCHANGED <<jobView, pair>>
    /\ Rendered(page)
    /\ i \in 1..Len(page.allConfigurations)
    /\ LET config == page.allConfigurations[i]
           isChosen == page.chosenConfigurationId = config.config_id
       IN page' = RunEffects(FALSE, page,
                     [page EXCEPT !.chosenConfigurationId =
                                     IF ~isChosen THEN config.config_id ELSE "",
                                  !.chosenAfterEdit =
                                     @ \/ page.manuallySetDuration])

(* onPress of a device card  (ChooseDeviceCard.tsx:19-22) *)
PressDeviceCard(i) ==
    /\ UNCHANGED <<jobView, pair>>
    /\ Rendered(page)
    /\ i \in 1..Len(page.allDevices)
    /\ ~isDisabled(page.allDevices[i])
    /\ LET id == page.allDevices[i].device_id
       IN page' = RunEffects(FALSE, page,
                     setIsChosenDevice(page, id, id \notin Ids(page.chosenDevices)))

(* onValueChange of the card's checkbox  (ChooseDeviceCard.tsx:45-47) *)
ToggleDeviceCheckbox(i) ==
    /\ UNCHANGED <<jobView, pair>>
    /\ Rendered(page)
    /\ i \in 1..Len(page.allDevices)
    /\ LET id == page.allDevices[i].device_id
       IN page' = RunEffects(FALSE, page,
                     setIsChosenDevice(page, id, id \notin Ids(page.chosenDevices)))

(* startTrace() up to the await  (startTrace.tsx:52-77) *)
StartTrace ==
    /\ UNCHANGED <<jobView, pair>>
    /\ Rendered(page)
    /\ page.requests < MaxRequests
    /\ page' =
          IF page.chosenConfigurationId = ""
             THEN [page EXCEPT !.lastStart = "no configuration"]
          ELSE IF Len(page.chosenDevices) = 0
             THEN [page EXCEPT !.lastStart = "no devices"]
          ELSE IF LessOrEqualZero(parseInt(page.duration))
             THEN [page EXCEPT !.lastStart = "duration"]
          ELSE [page EXCEPT !.lastStart = "sent",
                            !.requests = @ + 1,
                            !.awaiting = @ + 1,
                            !.lastRequest =
                                <<[config_id |-> page.chosenConfigurationId,
                                   devices |-> page.chosenDevices,
                                   duration |-> parseInt(page.duration)]>>]

(* the awaited request settles  (startTrace.tsx:66-81): with a job_id the  *)
(* page navigates to the job view. A page that is left keeps nothing.      *)
Response(hasJobId) ==
    /\ UNCHANGED <<jobView, pair>>
    /\ page.open
    /\ page.awaiting > 0
    /\ page' = IF hasJobId
                  THEN [NoPage EXCEPT !.location = "job"]
                  ELSE [page EXCEPT !.awaiting = @ - 1]

TraceNext ==
    \/ \E cid \in UrlConfigurationIds, ids \in UrlDeviceIds,
          dur \in UrlDurations, configsCached \in BOOLEAN,
          devices \in DeviceLists \cup {<<>>} :
             OpenPage(cid, ids, dur, configsCached, devices)
    \/ ClosePage
    \/ ConfigurationsLoaded
    \/ \E devices \in DeviceLists : DevicesLoaded(devices)
    \/ \E value \in TypedDurations : ChangeDuration(value)
    \/ \E i \in 1..2 : PressConfigCard(i)
    \/ \E i \in 1..2 : PressDeviceCard(i)
    \/ \E i \in 1..2 : ToggleDeviceCheckbox(i)
    \/ StartTrace
    \/ \E hasJobId \in BOOLEAN : Response(hasJobId)

----------------------------------------------------------------------------
Init ==
    /\ mounted = FALSE
    /\ jobId = NoKey
    /\ stream = <<>>
    /\ isConnected = FALSE
    /\ channels = <<>>
    /\ accepted = <<>>
    /\ swr = [data |-> NoJob, error |-> FALSE]
    /\ cache = [k \in JobIds |-> NoJob]
    /\ inflight = {}
    /\ pollKey = NoKey
    /\ threwAt = NoThrow
    /\ pair = [v \in Views |-> NoView]
    /\ page = NoPage

(* Route /job/:id starts matching: a fresh JobPage, its state initialised   *)
(* and its effect run                                                       *)
Mount(j) ==
    /\ UNCHANGED <<pair, page>>
    /\ ~mounted
    /\ Len(channels) < MaxChannels
    /\ mounted' = TRUE
    /\ jobId' = j
    /\ stream' = <<>>
    /\ isConnected' = FALSE
    /\ accepted' = <<>>
    /\ channels' = Append(channels, newEventSource(j))
    /\ swr' = hookFor(pollKeyFor(j))
    /\ pollKey' = pollKeyFor(j)
    /\ threwAt' = NoThrow
    /\ UNCHANGED <<cache, inflight>>

(* The id in /job/:id changes while the route keeps matching: same JobPage, *)
(* new jobId prop; the effect's cleanup runs, then the effect for the new id*)
ChangeJob(j) ==
    /\ UNCHANGED <<pair, page>>
    /\ mounted
    /\ j # jobId
    /\ Len(channels) < MaxChannels
    /\ jobId' = j
    /\ channels' = Append([channels EXCEPT ![Current] = cleanup(@)],
                          newEventSource(j))
    /\ swr' = hookFor(pollKeyFor(j))
    /\ pollKey' = pollKeyFor(j)
    /\ UNCHANGED <<mounted, stream, isConnected, accepted, cache, inflight,
                   threwAt>>

(* The route stops matching: cleanup runs, the timer is cleared *)
Unmount ==
    /\ UNCHANGED <<pair, page>>
    /\ mounted
    /\ mounted' = FALSE
    /\ channels' = [channels EXCEPT ![Current] = cleanup(@)]
    /\ pollKey' = NoKey
    /\ UNCHANGED <<jobId, stream, isConnected, accepted, swr, cache, inflight,
                   threwAt>>

(* eventSource.onopen  (streams.ts:24-26) *)
OnOpen(c) ==
    /\ UNCHANGED <<pair, page>>
    /\ c \in DOMAIN channels
    /\ channels[c].readyState = "CONNECTING"
    /\ channels' = [channels EXCEPT ![c].readyState = "OPEN"]
    /\ isConnected' = TRUE
    /\ UNCHANGED <<mounted, jobId, stream, accepted, swr, cache, inflight,
                   pollKey, threwAt>>

(* Mutant: a payload that does not parse is treated as a channel error *)
OnMessageThrowCloses(c, data) ==
    /\ UNCHANGED <<pair, page>>
    /\ c \in DOMAIN channels
    /\ channels[c].readyState = "OPEN"
    /\ Len(stream) < MaxStream
    /\ IF data.parses /\ accepts(JSONparse(data))
          THEN /\ stream' = setStreamUpdater(JSONparse(data), stream)
               /\ accepted' = Append(accepted, [ev |-> JSONparse(data),
                                                job |-> channels[c].job])
          ELSE UNCHANGED <<stream, accepted>>
    /\ threwAt' = IF data.parses THEN threwAt ELSE Len(accepted)
    /\ IF data.parses
          THEN UNCHANGED <<isConnected, channels>>
          ELSE /\ isConnected' = FALSE
               /\ channels' = [channels EXCEPT ![c] = close(@)]
    /\ UNCHANGED <<mounted, jobId, swr, cache, inflight, pollKey>>

(* eventSource.onmessage  (streams.ts:28-36). JSON.parse throwing ends the  *)
(* handler there; the exception is reported and the source stays as it is. *)
OnMessage(c, data) ==
    /\ UNCHANGED <<pair, page>>
    /\ c \in DOMAIN channels
    /\ channels[c].readyState = "OPEN"
    /\ Len(stream) < MaxStream
    /\ IF data.parses /\ accepts(JSONparse(data))
          THEN /\ stream' = setStreamUpdater(JSONparse(data), stream)
               /\ accepted' = Append(accepted, [ev |-> JSONparse(data),
                                                job |-> channels[c].job])
          ELSE UNCHANGED <<stream, accepted>>
    /\ threwAt' = IF data.parses THEN threwAt ELSE Len(accepted)
    /\ UNCHANGED <<mounted, jobId, isConnected, channels, swr, cache,
                   inflight, pollKey>>

(* Mutant: an error handler that closes the source and leaves the flag *)
OnErrorKeepsFlag(c, fatal) ==
    /\ UNCHANGED <<pair, page>>
    /\ c \in DOMAIN channels
    /\ channels[c].readyState \in {"CONNECTING", "OPEN"}
    /\ LET es == [channels[c] EXCEPT !.errored = TRUE]
           at == IF fatal
                    THEN [es EXCEPT !.readyState = "CLOSED", !.released = @ + 1]
                    ELSE es
       IN channels' = [channels EXCEPT ![c] = close(at)]
    /\ UNCHANGED <<mounted, jobId, stream, isConnected, accepted, swr, cache,
                   inflight, pollKey, threwAt>>

(* Mutant: an error handler that leaves the source to reconnect by itself *)
OnErrorNoClose(c, fatal) ==
    /\ UNCHANGED <<pair, page>>
    /\ c \in DOMAIN channels
    /\ channels[c].readyState \in {"CONNECTING", "OPEN"}
    /\ LET es == [channels[c] EXCEPT !.errored = TRUE]
       IN channels' = [channels EXCEPT ![c] =
             IF fatal
                THEN [es EXCEPT !.readyState = "CLOSED", !.released = @ + 1]
                ELSE [es EXCEPT !.readyState = "CONNECTING"]]
    /\ isConnected' = FALSE
    /\ UNCHANGED <<mounted, jobId, stream, accepted, swr, cache, inflight,
                   pollKey, threwAt>>

(* eventSource.onerror  (streams.ts:38-41). The error event is dispatched   *)
(* when the connection is lost or ended by the server (the source is then  *)
(* still reconnecting) or failed for good (the source is already closed).  *)
OnError(c, fatal) ==
    /\ UNCHANGED <<pair, page>>
    /\ c \in DOMAIN channels
    /\ channels[c].readyState \in {"CONNECTING", "OPEN"}
    /\ LET es == [channels[c] EXCEPT !.errored = TRUE]
           at == IF fatal
                    THEN [es EXCEPT !.readyState = "CLOSED", !.released = @ + 1]
                    ELSE es
       IN channels' = [channels EXCEPT ![c] = close(at)]
    /\ isConnected' = FALSE
    /\ UNCHANGED <<mounted, jobId, stream, accepted, swr, cache, inflight,
                   pollKey, threwAt>>

(* The poll hook: a fetch starts on mount, on a key change and on every     *)
(* refreshInterval tick of the mounted view, for the view's current key    *)
PollStart ==
    /\ UNCHANGED <<pair, page>>
    /\ pollKey # NoKey
    /\ pollOptions.refreshInterval > 0
    /\ pollKey \notin inflight
    /\ inflight' = inflight \cup {pollKey}
    /\ UNCHANGED <<mounted, jobId, stream, isConnected, channels, accepted,
                   swr, cache, pollKey, threwAt>>

(* A fetch resolves: the record is cached under its key; a mounted view     *)
(* whose key it is receives it                                             *)
PollSucceed(k, s) ==
    /\ UNCHANGED <<pair, page>>
    /\ k \in inflight
    /\ inflight' = inflight \ {k}
    /\ cache' = [cache EXCEPT ![k] = s]
    /\ swr' = IF mounted /\ k = jobId THEN [data |-> s, error |-> FALSE]
                                      ELSE swr
    /\ UNCHANGED <<mounted, jobId, stream, isConnected, channels, accepted,
                   pollKey, threwAt>>

(* A fetch rejects: the hook reports the error and keeps its data *)
PollFail(k) ==
    /\ UNCHANGED <<pair, page>>
    /\ k \in inflight
    /\ inflight' = inflight \ {k}
    /\ swr' = IF mounted /\ k = jobId THEN [swr EXCEPT !.error = TRUE]
                                      ELSE swr
    /\ UNCHANGED <<mounted, jobId, stream, isConnected, channels, accepted,
                   cache, pollKey, threwAt>>

Next ==
    \/ \E j \in JobIds : Mount(j)
    \/ \E j \in JobIds : ChangeJob(j)
    \/ Unmount
    \/ \E c \in 1..MaxChannels : OnOpen(c)
    \/ \E c \in 1..MaxChannels, data \in Payloads : OnMessage(c, data)
    \/ \E c \in 1..MaxChannels, fatal \in BOOLEAN : OnError(c, fatal)
    \/ PollStart
    \/ \E k \in JobIds, s \in PollStatuses : PollSucceed(k, s)
    \/ \E k \in JobIds : PollFail(k)

Spec == Init /\ [][Next]_vars

(* One job, with status strings inside and outside the taxonomy arriving   *)
(* from the server in the job record and in stream events                  *)
WidePayloads ==
    Payloads \cup
    { Data(TRUE, "D2", "exploded", "", "T2", ""),
      Data(TRUE, "D1", "__proto__", "", "T2", ""),
      Data(TRUE, "D2", "", "no status", "T1", "") }

WideStatuses ==
    {p[1] : p \in statuses} \cup {"exploded", "constructor", "__proto__"}

(* A job record that carries no status reads at job.tsx:97 like no record *)
RecordStatuses == WideStatuses \cup {NoJob}

WideNext ==
    \/ Mount("J1")
    \/ Unmount
    \/ \E c \in 1..MaxChannels : OnOpen(c)
    \/ \E c \in 1..MaxChannels, data \in WidePayloads : OnMessage(c, data)
    \/ \E c \in 1..MaxChannels, fatal \in BOOLEAN : OnError(c, fatal)
    \/ PollStart
    \/ \E s \in RecordStatuses : PollSucceed("J1", s)
    \/ PollFail("J1")

WideSpec == Init /\ [][WideNext]_vars

PairSpec == Init /\ [][PairNext]_vars

TraceSpec == Init /\ [][TraceNext]_vars

----------------------------------------------------------------------------
(* Vocabulary of the properties *)

Reverse(s) == [i \in 1..Len(s) |-> s[Len(s) + 1 - i]]

IsSuffix(s, t) ==
    /\ Len(s) <= Len(t)
    /\ \A i \in 1..Len(s) : s[i] = t[Len(t) - Len(s) + i]

AcceptedEvents == [i \in 1..Len(accepted) |-> accepted[i].ev]

(* The connection state of a channel: closed once its owner tore it down,  *)
(* errored once its error handler ran, else what the source reports        *)
ConnectionState(es) ==
    IF es.torn THEN "closed"
    ELSE IF es.errored THEN "errored"
    ELSE IF es.readyState = "OPEN" THEN "open"
    ELSE "connecting"

isLive == isConnected

Errored(c) == c \in DOMAIN channels /\ ~channels[c].errored /\ channels'[c].errored

----------------------------------------------------------------------------
(* C1: the stream array lists the accepted events in exact reverse arrival *)
(* order, most recently received first, whatever their timestamps are.    *)
C1_ReverseArrivalOrder == stream = Reverse(AcceptedEvents)

(* an event stamped T1 arrived after one stamped T2 and is listed first *)
C1_Witness ==
    /\ Len(stream) >= 2
    /\ stream[1].timestamp = "T1"
    /\ stream[2].timestamp = "T2"
    /\ accepted[Len(accepted)].ev = stream[1]

(* C2: after the job identifier of a mounted view changed from A to B, the *)
(* timeline shown for B contains no event received on A's channel.        *)
C2_NoStaleEvents ==
    mounted =>
        \A i \in 1..Len(stream) :
            i <= Len(accepted) => accepted[Len(accepted) + 1 - i].job = jobId

(* C3: isLive is true exactly when the connection state of the channel of  *)
(* the view's current job identifier is open.                             *)
C3_LiveIffOpen ==
    mounted => (isLive <=> ConnectionState(channels[Current]) = "open")

(* C4: the job-level status is that of the last successfully polled record *)
(* of the view's job, and no accepted stream event changes it.            *)
C4_StatusFromSnapshotOnly ==
    [][ /\ (mounted' => jobData' = cache'[jobId'])
        /\ (Len(accepted') > Len(accepted)
               => jobData' = jobData /\ badgeStatus' = badgeStatus)
      ]_vars

(* record says running while the timeline holds a failed event *)
C4_Witness ==
    /\ mounted
    /\ badgeStatus = "running"
    /\ \E i \in 1..Len(stream) : stream[i].status = "failed"

(* C5: a failed poll leaves the displayed job record unchanged.            *)
C5_FailedPollKeepsSnapshot ==
    [][ (\E k \in JobIds : PollFail(k)) => jobData' = jobData ]_vars

(* a poll of the current job failed after one had succeeded *)
C5_Witness == mounted /\ swr.error /\ swr.data # NoJob

(* C6: once the view is torn down, its timeline gets no further event and  *)
(* its job record is not updated, whatever resolves or arrives afterwards.*)
C6_NothingAfterTeardown ==
    [][ (~mounted /\ ~mounted') =>
            /\ stream' = stream
            /\ accepted' = accepted
            /\ jobData' = jobData ]_vars

(* torn down with the channel open; a poll resolved after the teardown *)
C6_Witness ==
    /\ ~mounted
    /\ Len(channels) = 1
    /\ isConnected
    /\ ~channels[1].errored
    /\ jobId \in JobIds
    /\ jobId \notin inflight
    /\ cache[jobId] # jobData

(* C7: when the channel errors, isLive is false in that same step, the     *)
(* timeline is unchanged and the poller stays armed for the job.          *)
C7_ErrorKeepsTimelineAndPoller ==
    [][ (\E c \in 1..MaxChannels : Errored(c)) =>
            /\ isLive' = FALSE
            /\ stream' = stream
            /\ pollKey' = jobId' /\ pollKey' = pollKey
            /\ inflight' = inflight ]_vars

(* errored mid-stream: events kept, poller armed *)
C7_Witness ==
    /\ mounted
    /\ channels[Current].errored
    /\ Len(stream) >= 2
    /\ ~isLive
    /\ pollKey = jobId

(* C8: a closed channel stays closed, nothing changes isConnected or the   *)
(* timeline on its behalf, and no channel is released more than once.     *)
C8_ClosedIsTerminal ==
    [][ /\ \A c \in DOMAIN channels :
              channels[c].readyState = "CLOSED" =>
                  /\ channels'[c].readyState = "CLOSED"
                  /\ channels'[c].released = channels[c].released
                  /\ channels'[c].released = 1
        /\ ( /\ \A c \in DOMAIN channels : channels[c].readyState = "CLOSED"
             /\ Len(channels') = Len(channels) )
           => (isConnected' = isConnected /\ stream' = stream)
      ]_vars

(* closed by the error handler, then closed again by the cleanup *)
C8_Witness ==
    \E c \in DOMAIN channels :
        /\ channels[c].errored
        /\ channels[c].torn
        /\ channels[c].released = 1

(* C9: every channel whose owner is gone (view torn down, or job           *)
(* identifier changed since) is closed.                                   *)
C9_ChannelsClosedAfterOwner ==
    \A c \in DOMAIN channels :
        (c < Current \/ ~mounted) => channels[c].readyState = "CLOSED"

(* channels left behind in the errored and in a non-errored state *)
C9_Witness ==
    /\ ~mounted
    /\ \E c \in DOMAIN channels : channels[c].torn /\ channels[c].errored
    /\ \E c \in DOMAIN channels : channels[c].torn /\ ~channels[c].errored

(* C10: while a view stays mounted on one job identifier its timeline only *)
(* grows: the previous timeline is a suffix of the new one.               *)
C10_TimelineOnlyGrows ==
    [][ (mounted /\ mounted' /\ jobId' = jobId) => IsSuffix(stream, stream') ]_vars

(* two events of the same device, both kept *)
C10_Witness ==
    /\ mounted
    /\ Len(stream) >= 2
    /\ stream[1].device_serial = stream[2].device_serial

(* C11: the timeline performs no deduplication: it is as long as the       *)
(* number of accepted messages, identical ones included.                  *)
C11_NoDeduplication == Len(stream) = Len(accepted)

(* two events identical in every field, both listed *)
C11_Witness ==
    /\ Len(stream) >= 2
    /\ stream[1] = stream[2]

(* C12: the old job's channel is closed before the new job's channel is    *)
(* created: at no point are two channels of the view both not closed.     *)
C12_AtMostOneLiveChannel ==
    Cardinality({c \in DOMAIN channels : channels[c].readyState # "CLOSED"}) <= 1

(* the job identifier changed while the old channel was open: old closed, *)
(* new one open                                                           *)
C12_Witness ==
    /\ mounted
    /\ Len(channels) = 2
    /\ channels[1].job # channels[2].job
    /\ channels[1].torn /\ ~channels[1].errored
    /\ channels[1].readyState = "CLOSED"
    /\ channels[2].readyState = "OPEN"
    /\ Len(stream) >= 1

(* C13: after the channel errored it is never reconnected: for the same    *)
(* job identifier and view it stays closed, isLive stays false and the    *)
(* timeline gets no further event.                                        *)
C13_NoReconnectAfterError ==
    [][ ( /\ mounted /\ mounted'
          /\ Len(channels') = Len(channels)
          /\ channels[Current].errored )
        => /\ channels'[Current].readyState = "CLOSED"
           /\ ConnectionState(channels'[Current]) = "errored"
           /\ ~isLive'
           /\ stream' = stream ]_vars

(* errored after an event was received, and a poll went on afterwards *)
C13_Witness ==
    /\ mounted
    /\ channels[Current].errored
    /\ Len(stream) = 1
    /\ swr.data # NoJob
    /\ jobId \in inflight

(* C14: a push payload that cannot be parsed is dropped without any other  *)
(* effect: timeline, connection flag and channel are unchanged.           *)
C14_MalformedPayloadDropped ==
    [][ (threwAt' # threwAt /\ threwAt' # NoThrow)
        => /\ stream' = stream
           /\ accepted' = accepted
           /\ isConnected' = isConnected
           /\ channels' = channels ]_vars

(* a valid message was appended after an unparseable one on the same      *)
(* channel, which is still open                                           *)
C14_Witness ==
    /\ mounted
    /\ Len(channels) = 1
    /\ channels[1].readyState = "OPEN"
    /\ isConnected
    /\ threwAt # NoThrow
    /\ Len(accepted) > threwAt

(* The closed taxonomy of job and device states *)
Taxonomy ==
    {"pending", "starting", "running", "uploading", "completed", "failed",
     "partial"}

(* The statuses the mounted view passes to ChipStatus *)
ShownStatuses ==
    ({badgeStatus} \cup {stream[i].status : i \in 1..Len(stream)}) \ {""}

(* C15: a status string outside the taxonomy, in the job record or in a    *)
(* stream event, never makes the render of the job view fail: the badge,  *)
(* the connection chip and every event are still shown.                   *)
C15_UnknownStatusRenders ==
    mounted =>
        /\ ~JobPage.crashed
        /\ Len(JobPage.badge) = 1
        /\ JobPage.live = <<isConnected>>
        /\ Len(JobPage.cards) = Len(stream)

(* C16: a status outside the taxonomy that reaches the lookup is reported  *)
(* and is not shown as a taxonomy value nor as an empty display.          *)
C16_UnknownStatusReported ==
    mounted =>
        \A st \in ShownStatuses \ Taxonomy :
            /\ st \in ChipStatusLogs(st)
            /\ ChipStatus(st).children # Undefined
            /\ \A t \in Taxonomy : ChipStatus(st) # ChipStatus(t)

(* C17: on the taxonomy the three tables are total and single-valued, with *)
(* colours among warning, primary, success, danger, and they have no key  *)
(* outside the taxonomy.                                                  *)
C17_LookupTotalOnTaxonomy ==
    /\ \A t \in Taxonomy :
          /\ Cardinality({p \in statuses : p[1] = t}) = 1
          /\ Cardinality({p \in statuses_colors : p[1] = t}) = 1
          /\ Cardinality({p \in statuses_text_colors : p[1] = t}) = 1
          /\ ChipStatus(t).color \in {"warning", "primary", "success", "danger"}
          /\ ChipStatus(t).className \in {"text-black", "text-white"}
          /\ ChipStatus(t).children \notin {Undefined, FunctionValue, ObjectPrototype}
    /\ \A tbl \in {statuses, statuses_colors, statuses_text_colors} :
          {p[1] : p \in tbl} \subseteq Taxonomy
    /\ \A st \in ShownStatuses \cap Taxonomy :
          /\ ChipStatus(st).color \in {p[2] : p \in statuses_colors}
          /\ ChipStatus(st).children \in {p[2] : p \in statuses}

(* taxonomy values looked up for the badge and for an event's chip *)
C17_Witness ==
    /\ mounted
    /\ badgeStatus = "partial"
    /\ JobPage.badge = <<[color |-> "warning", className |-> "text-black",
                          children |-> "Partial Success"]>>
    /\ Len(stream) >= 1
    /\ JobPage.cards[1].chip = <<[color |-> "danger", className |-> "text-white",
                                  children |-> "Failed"]>>

C19_NoPollForOldJob ==
    [][ /\ \A k \in inflight' \ inflight : mounted /\ k = jobId /\ k = pollKey
        /\ ~mounted' => pollKey' = NoKey
        /\ mounted' => pollKey' = jobId'
      ]_vars

(* the job changed after the old one was polled; only the new one is       *)
(* being polled                                                           *)
C19_Witness ==
    /\ mounted
    /\ Len(channels) = 2
    /\ channels[1].job # jobId
    /\ cache[channels[1].job] # NoJob
    /\ inflight = {jobId}

(* C20: a successful poll of the current job replaces the record: the      *)
(* badge shows the returned status whatever the timeline holds, and the   *)
(* timeline is unchanged by the poll.                                     *)
C20_PollReplacesSnapshot ==
    [][ \A k \in JobIds, s \in WideStatuses :
            (PollSucceed(k, s) /\ mounted /\ k = jobId)
            => /\ jobData' = s
               /\ badgeStatus' = s
               /\ stream' = stream ]_vars

(* timeline [D2 failed, D1 completed] and the record now says partial *)
C20_Witness ==
    /\ mounted
    /\ Len(stream) = 2
    /\ stream[1].device_serial = "D2" /\ stream[1].status = "failed"
    /\ stream[2].device_serial = "D1" /\ stream[2].status = "completed"
    /\ badgeStatus = "partial"

----------------------------------------------------------------------------
(* C21: the connection state of a channel only takes the transitions       *)
(* connecting to open, connecting or open to errored, and any state to     *)
(* closed; a channel starts in connecting, an errored or closed channel's  *)
(* source is never open again, and a source that left connecting never     *)
(* returns to it.                                                          *)
C21_ConnectionTransitions ==
    [][ \A c \in DOMAIN channels' :
          IF c \in DOMAIN channels
             THEN LET a == ConnectionState(channels[c])
                      b == ConnectionState(channels'[c])
                  IN /\ \/ a = b
                        \/ b = "closed"
                        \/ <<a, b>> \in { <<"connecting", "open">>,
                                          <<"connecting", "errored">>,
                                          <<"open", "errored">> }
                     /\ a \in {"errored", "closed"}
                           => channels'[c].readyState = "CLOSED"
                     /\ channels[c].readyState # "CONNECTING"
                           => channels'[c].readyState # "CONNECTING"
             ELSE ConnectionState(channels'[c]) = "connecting" ]_vars

(* the first channel went open, errored, closed; the second is open *)
C21_Witness ==
    /\ Len(channels) = 2
    /\ channels[1].errored /\ channels[1].torn /\ channels[1].released = 1
    /\ ConnectionState(channels[2]) = "open"
    /\ stream # <<>>

(* C23: a poll outcome, success or failure, never changes the timeline or  *)
(* isLive; a channel step (open, message, error, close on teardown) never  *)
(* changes the job record the view holds nor the cached records: a step    *)
(* that changes the one side is no step of the other.                      *)
C23_PollAndChannelFrames ==
    [][ /\ (stream' # stream \/ isLive' # isLive)
           => ~(\E k \in JobIds :
                   \/ PollFail(k)
                   \/ \E s \in PollStatuses : PollSucceed(k, s))
        /\ (jobData' # jobData \/ cache' # cache)
           => ~(\/ Unmount
                \/ \E c \in 1..MaxChannels :
                      \/ OnOpen(c)
                      \/ \E data \in Payloads : OnMessage(c, data)
                      \/ \E fatal \in BOOLEAN : OnError(c, fatal)) ]_vars

(* both cells have moved: a record and a failed poll on one side, two      *)
(* events on a live channel on the other                                   *)
C23_Witness ==
    /\ mounted /\ swr.error /\ jobData = "running"
    /\ Len(stream) = 2 /\ isLive
    /\ stream[1].status = "failed"

(* C24: the view renders one entry per event of the timeline, in timeline  *)
(* order, none left out; an entry has the trace link exactly when its      *)
(* event has a non-empty trace_id, and the link points at that trace_id.   *)
C24_RendersTimeline ==
    mounted =>
        /\ Len(JobPage.cards) = Len(stream)
        /\ \A i \in 1..Len(stream) :
              /\ i \in DOMAIN JobPage.cards
              /\ JobPage.cards[i].device_serial = stream[i].device_serial
              /\ JobPage.cards[i].message = stream[i].message
              /\ (JobPage.cards[i].link # <<>>) = (stream[i].trace_id # "")
              /\ stream[i].trace_id # ""
                    => JobPage.cards[i].link = <<stream[i].trace_id>>

(* A step taken by view v: its route, or a handler of its source *)
ViewStep(v) ==
    \/ \E j \in JobIds : PairMount(v, j) \/ PairChangeJob(v, j)
    \/ PairUnmount(v)
    \/ PairOnOpen(v)
    \/ \E data \in PairPayloads : PairOnMessage(v, data)
    \/ \E fatal \in BOOLEAN : PairOnError(v, fatal)

(* C22: two views active together share no mutable state: an open, a       *)
(* message or an error on one view's channel, and a job change, mount or   *)
(* teardown of one view, leave the other view's timeline and isLive as     *)
(* they were.                                                              *)
C22_ViewsShareNothing ==
    [][ \A v \in Views : \A w \in Views \ {v} :
           ViewStep(v) => /\ pair'[w].stream = pair[w].stream
                          /\ pair'[w].isConnected = pair[w].isConnected ]_vars

(* both views mounted: one live with two events, the other errored and     *)
(* empty                                                                   *)
C22_Witness ==
    /\ pair[1].mounted /\ pair[2].mounted
    /\ pair[1].isConnected /\ Len(pair[1].stream) = 2
    /\ pair[2].es.errored /\ ~pair[2].isConnected /\ pair[2].stream = <<>>
    /\ pair[2].last = "threw"

(* C25: a parsed message is put on the timeline only if its device_serial  *)
(* and its timestamp are both non-empty; a parsed message missing either   *)
(* leaves the timeline, isLive and the connection state as they were; so   *)
(* every event of a timeline has a non-empty device_serial and timestamp.  *)
C25_OnlyCompleteEventsAppended ==
    /\ [](\A v \in Views : \A i \in 1..Len(pair[v].stream) :
             /\ pair[v].stream[i].device_serial # ""
             /\ pair[v].stream[i].timestamp # "")
    /\ [][ \A v \in Views, data \in PairPayloads :
             (PairOnMessage(v, data) /\ data.parses)
             => IF data.device_serial # "" /\ data.timestamp # ""
                   THEN pair'[v].stream = <<JSONparse(data)>> \o pair[v].stream
                   ELSE /\ pair'[v].stream = pair[v].stream
                        /\ pair'[v].isConnected = pair[v].isConnected
                        /\ ConnectionState(pair'[v].es)
                              = ConnectionState(pair[v].es) ]_vars

(* a message without one of the fields arrived after an accepted one: the  *)
(* timeline still has the one event and the view is still live             *)
C25_Witness ==
    \E v \in Views :
        /\ pair[v].last = "skipped"
        /\ Len(pair[v].stream) = 1
        /\ pair[v].isConnected
        /\ ConnectionState(pair[v].es) = "open"

(* C26: while the view holds no job record the badge is given the pending  *)
(* status, and it is given pending, or drawn like pending, only when the   *)
(* record is missing, has no status, or has the status pending.            *)
C26_PendingOnlyWithoutRecord ==
    mounted =>
        /\ jobData = NoJob => badgeStatus = "pending"
        /\ badgeStatus = "pending" => jobData \in {NoJob, "pending"}
        /\ ChipStatus(badgeStatus) = ChipStatus("pending")
              => jobData \in {NoJob, "pending"}

(* a poll failed, events arrived, one of them failed: still no record *)
C26_Witness ==
    /\ mounted /\ jobData = NoJob /\ swr.error
    /\ \E i \in 1..Len(stream) : stream[i].status = "failed"
    /\ badgeStatus = "pending"

(* C27: startTrace sends a create-job request only when a configuration is *)
(* chosen, at least one device is chosen and the duration field parses to  *)
(* an integer greater than 0; with any other input no request is sent, and *)
(* the page navigates to a job view only after a request was sent.         *)
C27_StartTraceGuards ==
    [][ /\ (page.open /\ page'.open /\ page'.requests > page.requests)
           => /\ page.chosenConfigurationId # ""
              /\ page.chosenDevices # <<>>
              /\ GreaterThanZero(parseInt(page.duration))
        /\ (page.open /\ page'.location = "job") => page.requests > 0 ]_vars

(* C28: every chosen device of the start-trace page is a listed device     *)
(* whose status is online.                                                 *)
C28_OnlyOnlineDevicesChosen ==
    page.open =>
        \A id \in Ids(page.chosenDevices) :
            \E i \in 1..Len(page.allDevices) :
                /\ page.allDevices[i].device_id = id
                /\ page.allDevices[i].last_status = "online"

(* C29: once the duration field was edited by hand, only another edit      *)
(* changes the duration, whatever configuration is chosen afterwards;      *)
(* before any edit, choosing a configuration that has a default_duration   *)
(* sets the duration to it.                                                *)
C29_ManualDurationKept ==
    [][ (page.open /\ page'.open) =>
          /\ page.manuallySetDuration => page'.manuallySetDuration
          /\ (page.manuallySetDuration /\ page'.duration # page.duration)
             => \E value \in TypedDurations : ChangeDuration(value)
          /\ \A i \in 1..Len(Configurations) :
                (/\ ~page.manuallySetDuration
                 /\ Configurations[i].default_duration # 0
                 /\ page.chosenConfigurationId # Configurations[i].config_id
                 /\ page'.chosenConfigurationId = Configurations[i].config_id
                 /\ PressConfigCard(i))
                => page'.duration = toString(Configurations[i].default_duration)
      ]_vars

(* the field was set to 7 by hand, then the configuration with the default *)
(* 30 was chosen: the duration is still 7                                  *)
C29_Witness ==
    /\ page.open /\ page.manuallySetDuration /\ page.chosenAfterEdit
    /\ page.chosenConfigurationId = "c1"
    /\ chosenConfigurationData(page).default_duration = 30
    /\ page.duration = <<"7">>

====
